---- MODULE Spec2Model ----
(***************************************************************************)
(* xtrabackup-scheduler: the backup scheduler (src/index.js) and the       *)
(* restore tool (src/restore.js).                                          *)
(*                                                                         *)
(* Time is a JavaScript Date value: an integer number of milliseconds.     *)
(* A calendar day is shortened to SecPerDay seconds so that day changes    *)
(* and second boundaries are both within reach of the model checker.       *)
(* A storage key is the record [kind, day, sod]: the <YYYYMMDD> digits are *)
(* the day number and the <HHmmss> digits the second of that day.          *)
(***************************************************************************)
EXTENDS Integers, Sequences, FiniteSets, TLC

VARIABLES
    tz,         \* time-zone offset (ms, local = UTC + tz) of the machine running a tool
    nT,         \* naming: the instant handed to the encoder
    nKind,      \* naming: kind of key being encoded ("full" / "inc")
    nKey,       \* naming: the key the scheduler produced
    nDate,      \* naming: the Date the restore tool decoded from nKey
    nDay,       \* naming: the day string the resolver derived from nDate
    nPc,        \* naming: position of the round trip
    store,      \* Archive Store: the set of objects [key, lm] under the prefix
    older,      \* Archive Store: number of further full-backup objects whose keys
                \* sort before every key of store (days before the modelled ones)
    rPc,        \* restore tool: position in main / restoreBackups
    backups,    \* restore tool: the list returned by listBackups
    selected,   \* restore tool: selectedIndex + 1 (0 while nothing is selected)
    chain,      \* restore tool: backupsToRestore
    rI,         \* restore tool: loop variable i of restoreBackups
    rFs,        \* restore tool: paths that exist under restoreRoot
    rOps,       \* restore tool: history of the store, file and command calls issued
    rErr,       \* restore tool: day named by the missing-full-backup error
    rExit,      \* restore tool: process exit code (-1 while running)
    rTyped,     \* restore tool: history of the operator's answers to the prompts
    now,        \* scheduler: the clock, Date.now()
    hcUrl,      \* scheduler: TRUE when config.healthCheckUrl is set
    tickStart,  \* scheduler: the clock when the current tick's runBackup was called
    sPc,        \* scheduler: position in main / runBackup and the procedures
    root,       \* scheduler: entries of config.backupRoot
    baseDir,    \* scheduler: runBackup's baseDir (NoKey for null)
    cur,        \* scheduler: currentDate / currentDateTime of the running procedure
    tickLog,    \* scheduler: history of the steps attempted in the current tick
    failedFull, \* scheduler: history, the day of a full procedure that failed on this root
    sweepSnap,  \* scheduler: history, the store as the last sweep found it
    sweepCut,   \* scheduler: history, cutoffDate of the last sweep
    sweepRes,   \* scheduler: history, how the last sweep ended
    sExit,      \* scheduler: process exit code (-1 while running)
    restarts,   \* scheduler: how often the supervisor has restarted the process
    dbPassword, \* command runner: config.dbPassword, a text
    command,    \* command runner: which invocation of runCommand is exercised
    cmdPc,      \* command runner: position of the invocation and of its error
    cmdError,   \* command runner: message of the Error runCommand rejected with
    stderrLines \* command runner: the lines written to the error stream

namingVars == <<nT, nKind, nKey, nDate, nDay, nPc>>
storeVars == <<store, older>>
restoreVars == <<rPc, backups, selected, chain, rI, rFs, rOps, rErr, rExit, rTyped>>

schedVars == <<now, hcUrl, tickStart, sPc, root, baseDir, cur, tickLog, failedFull,
               sweepSnap, sweepCut, sweepRes, sExit, restarts>>

commandVars == <<dbPassword, command, cmdPc, cmdError, stderrLines>>

vars == <<tz, namingVars, storeVars, restoreVars, schedVars, commandVars>>

----------------------------------------------------------------------------
(* Bounds and program constants *)

MsPerSec == 1000
SecPerDay == 3
NamingDays == 3
StartDay == 40
HorizonSecs == 2
MaxRestarts == 1

DayMs == SecPerDay * MsPerSec

\* offsets of the restore machine's zone: one second west, UTC, one second east
TzOffsets == {0 - MsPerSec, 0, MsPerSec}

\* the scheduler starts one second into StartDay and is followed for HorizonSecs
StartNow == StartDay * DayMs + MsPerSec
MaxNow == StartNow + HorizonSecs * MsPerSec

NoKey == [kind |-> "none", day |-> 0, sod |-> 0]
NoDate == 0 - 1

\* a Date whose time value is NaN ("Invalid Date")
InvalidDate == 0 - 2

\* an object that is no backup but has the archive extension, such as
\* "notes.tar.gz", and one without it, such as "readme.txt"
OtherArchiveKey == [kind |-> "other_tar_gz", day |-> 0, sod |-> 0]
PlainKey == [kind |-> "plain", day |-> 0, sod |-> 0]

----------------------------------------------------------------------------
(* Naming scheme: src/index.js formatDate / formatDateTime (encoder) and   *)
(* the key parser inside src/restore.js listBackups (decoder)              *)

\* toISOString().slice(0, 10) without dashes: the UTC calendar day of the instant
formatDate(date) == date \div DayMs

\* toISOString().slice(0, 19) without separators: UTC day and second of day,
\* the millisecond part is cut off
formatDateTime(date) ==
    [day |-> date \div DayMs, sod |-> (date % DayMs) \div MsPerSec]

FullKey(day) == [kind |-> "full", day |-> day, sod |-> 0]
IncKey(dt) == [kind |-> "inc", day |-> dt.day, sod |-> dt.sod]

\* new Date("YYYY-MM-DD"): a date-only string is read as UTC midnight
parseDateOnly_local(day, zone) == day * DayMs - zone
parseDateOnly(day, zone) == day * DayMs

\* new Date("YYYY-MM-DDTHH:mm:ss"): a date-time string without offset is read
\* in the local zone of the machine
parseDateTime(day, sod, zone) == (day * SecPerDay + sod) * MsPerSec - zone

\* the .map() callback of listBackups: filename -> date. A name that does
\* not start with "inc_backup_" takes the full-backup branch; characters
\* that are not the digits of a date give new Date("note-s.-ta"), an
\* Invalid Date.
decodeDate(key, zone) ==
    IF key.kind = "inc"
    THEN parseDateTime(key.day, key.sod, zone)
    ELSE IF key.kind = "full"
    THEN parseDateOnly(key.day, zone)
    ELSE InvalidDate

----------------------------------------------------------------------------
(* Archive Store *)

MaxKeys == 1000

\* "full_backup_..." < "inc_backup_..." < "notes.tar.gz" < "readme.txt"
KindRank(kind) ==
    CASE kind = "full" -> 1
      [] kind = "inc" -> 2
      [] kind = "other_tar_gz" -> 3
      [] OTHER -> 4

\* S3 lists keys in ascending (UTF-8 binary) order: "full_backup_..." sorts
\* before "inc_backup_...", and the zero-padded digits sort as numbers
KeyLess(a, b) ==
    \/ KindRank(a.kind) < KindRank(b.kind)
    \/ a.kind = b.kind /\ a.day < b.day
    \/ a.kind = b.kind /\ a.day = b.day /\ a.sod < b.sod

\* position of an object of objs in the listing of the prefix
ListPos(objs, before, o) ==
    before + 1 + Cardinality({p \in objs : KeyLess(p.key, o.key)})

\* one ListObjects / ListObjectsV2 response, never continued: the objects of
\* objs among the first MaxKeys keys
FirstPage(objs, before) == {o \in objs : ListPos(objs, before, o) <= MaxKeys}

\* the response's Contents restricted to objs, as an array in listing order
Contents(objs, before) ==
    LET page == FirstPage(objs, before)
    IN  [i \in 1..Cardinality(page) |->
            CHOOSE o \in page : Cardinality({p \in page : KeyLess(p.key, o.key)}) = i - 1]

StoreKeys(objs) == {o.key : o \in objs}

Range(f) == {f[i] : i \in DOMAIN f}

----------------------------------------------------------------------------
(* Restore tool: src/restore.js *)

ListCap == 20

\* listBackups .map(): the record built for one listed object
BackupRecord(o, zone) ==
    [key |-> o.key,
     date |-> decodeDate(o.key, zone),
     isIncremental |-> (o.key.kind = "inc")]

\* Array.prototype.sort((a, b) => b.date - a.date): stable, descending by date
SortDescByDate(arr) ==
    LET n == Len(arr)
        pos(i) == 1 + Cardinality({j \in 1..n :
                        \/ arr[j].date > arr[i].date
                        \/ arr[j].date = arr[i].date /\ j < i})
    IN  [p \in 1..n |-> arr[CHOOSE i \in 1..n : pos(i) = p]]

\* Array.prototype.sort((a, b) => a.date - b.date): stable, ascending by date
SortAscByDate(arr) ==
    LET n == Len(arr)
        pos(i) == 1 + Cardinality({j \in 1..n :
                        \/ arr[j].date < arr[i].date
                        \/ arr[j].date = arr[i].date /\ j < i})
    IN  [p \in 1..n |-> arr[CHOOSE i \in 1..n : pos(i) = p]]

\* .slice(0, n)
Slice(arr, n) == SubSeq(arr, 1, IF Len(arr) < n THEN Len(arr) ELSE n)

\* Array.prototype.filter
Filter(arr, Keep(_)) == SelectSeq(arr, Keep)

\* listBackups: obj.Key.endsWith(".tar.gz")
endsWithTarGz(o) == o.key.kind # "plain"

\* listBackups: response.Contents after .filter() and .map()
mappedBackups(objs, before, zone) ==
    LET contents == Filter(Contents(objs, before), endsWithTarGz)
    IN  [i \in 1..Len(contents) |-> BackupRecord(contents[i], zone)]

\* listBackups: the value returned for a successful listing whose records
\* all have a valid date
listBackups(objs, before, zone) ==
    Slice(SortDescByDate(mappedBackups(objs, before, zone)), ListCap)

\* the arrangements of an array
Arrangements(arr) ==
    {p \in [1..Len(arr) -> Range(arr)] :
        \A x \in Range(arr) :
            Cardinality({i \in 1..Len(arr) : p[i] = x})
                = Cardinality({i \in 1..Len(arr) : arr[i] = x})}

\* listBackups: the values a successful listing can return. With an Invalid
\* Date among the records the comparator b.date - a.date returns NaN, it is
\* not a consistent comparator and the order sort() leaves is
\* implementation-defined.
listBackupsResults(objs, before, zone) ==
    LET mapped == mappedBackups(objs, before, zone)
    IN  IF \A i \in 1..Len(mapped) : mapped[i].date # InvalidDate
        THEN {listBackups(objs, before, zone)}
        ELSE {Slice(p, ListCap) : p \in Arrangements(mapped)}

\* main, the table of backups: Date.prototype.toISOString throws a
\* RangeError on an Invalid Date
displayThrows(list) == \E i \in 1..Len(list) : list[i].date = InvalidDate

\* findRelatedBackups: dateStr of the selected incremental
chainDay(selectedBackup) == formatDate(selectedBackup.date)

\* findRelatedBackups: the predicate of backups.find(...)
isFullOfDay_orEarlier(b, dateStr) == ~b.isIncremental /\ b.key.day <= dateStr
isFullOfDay(b, dateStr) == ~b.isIncremental /\ b.key = FullKey(dateStr)

\* Array.prototype.find: index of the first match, 0 when there is none
findFull(arr, dateStr) ==
    IF \E i \in 1..Len(arr) : isFullOfDay(arr[i], dateStr)
    THEN CHOOSE i \in 1..Len(arr) :
            /\ isFullOfDay(arr[i], dateStr)
            /\ \A j \in 1..(i - 1) : ~isFullOfDay(arr[j], dateStr)
    ELSE 0

\* findRelatedBackups: the incrementals between the full and the selection
relatedIncrementals(arr, fullBackup, selectedBackup, dateStr) ==
    LET Keep(b) ==
            /\ b.isIncremental
            /\ b.date >= fullBackup.date
            /\ b.date <= selectedBackup.date
            /\ b.key.day = dateStr
    IN  SortAscByDate(Filter(arr, Keep))

\* findRelatedBackups: the returned array (the caller checks findFull first)
findRelatedBackups(arr, selectedBackup) ==
    IF selectedBackup.isIncremental
    THEN LET dateStr == chainDay(selectedBackup)
             fullBackup == arr[findFull(arr, dateStr)]
         IN  <<fullBackup>> \o relatedIncrementals(arr, fullBackup, selectedBackup, dateStr)
    ELSE <<selectedBackup>>

\* restoreBackups: "if (backupsToRestore.length > 1)" guards the base prepare
needsBasePrepare_always(n) == n >= 1
needsBasePrepare(n) == n > 1

\* restoreBackups: the xtrabackup --prepare call of loop iteration i
incPrepareCall_lastFinal(i, n) ==
    [op |-> "prepare", key |-> NoKey, logOnly |-> (i < n - 1), inc |-> i]
incPrepareCall(i, n) ==
    [op |-> "prepare", key |-> NoKey, logOnly |-> TRUE, inc |-> i]

\* restoreBackups: the xtrabackup --prepare call on the base directory alone
basePrepareCall(logOnly) ==
    [op |-> "prepare", key |-> NoKey, logOnly |-> logOnly, inc |-> 0]

Op(name, key, i) == [op |-> name, key |-> key, logOnly |-> FALSE, inc |-> i]

Path(t, key, i) == [t |-> t, key |-> key, i |-> i]
RootPath == Path("root", NoKey, 0)
BasePath == Path("base", NoKey, 0)
TarPath(key) == Path("tar", key, 0)
IncPath(i) == Path("incdir", NoKey, i)

\* String.prototype.toLowerCase on the answers the model enters
toLowerCase(s) == IF s = "YES" THEN "yes" ELSE IF s = "Q" THEN "q" ELSE s

Selections == {"q", "Q", "x"}
Answers == {"yes", "YES", "no", "y"}

\* parseInt of a text that does not start with a number
NaN == 0 - 1

\* one answer of the operator: the text entered, or "number" and its value
Typed(text, num) == [text |-> text, num |-> num]

\* main: the test on the answer to "Proceed with restore? (yes/no)"
isAffirmative_notNo(proceed) == toLowerCase(proceed) # "no"
isAffirmative(proceed) == toLowerCase(proceed) = "yes"

rUnchangedOthers == UNCHANGED <<tz, namingVars, storeVars, schedVars, commandVars>>

\* catch (error) { logError(...); process.exit(1); }
rFail(ops) ==
    /\ rPc' = "failed"
    /\ rExit' = 1
    /\ rOps' = ops

\* main: listBackups() and the table of the listed backups
RListBackups ==
    /\ rPc = "list"
    /\ \E ok \in BOOLEAN :
        IF ok
        THEN /\ backups' \in listBackupsResults(store, older, tz)
             /\ IF backups' = <<>>
                THEN /\ rPc' = "returned" /\ rExit' = 0
                     /\ rOps' = Append(rOps, Op("list", NoKey, 0))
                ELSE IF displayThrows(backups')
                THEN rFail(Append(rOps, Op("list", NoKey, 0)))
                ELSE /\ rPc' = "select" /\ UNCHANGED rExit
                     /\ rOps' = Append(rOps, Op("list", NoKey, 0))
        ELSE /\ rFail(Append(rOps, Op("list", NoKey, 0)))
             /\ UNCHANGED backups
    /\ UNCHANGED <<selected, chain, rI, rFs, rErr, rTyped>>
    /\ rUnchangedOthers

\* main: the selection prompt, answered with a quit letter or a non-number
RSelectText ==
    /\ rPc = "select"
    /\ \E selection \in Selections :
        \* 'q' cancels; parseInt of any other text is NaN: "Invalid selection."
        /\ toLowerCase(selection) \in {"q", "x"}
        /\ rTyped' = Append(rTyped, Typed(selection, NaN))
        /\ rPc' = "returned"
        /\ rExit' = 0
    /\ UNCHANGED <<backups, selected, chain, rI, rFs, rOps, rErr>>
    /\ rUnchangedOthers

\* main: the selection prompt answered with a number, then findRelatedBackups
RSelectNumber ==
    /\ rPc = "select"
    /\ \E n \in 0..(Len(backups) + 1) :
        LET selectedIndex == n - 1
        IN  /\ rTyped' = Append(rTyped, Typed("number", n))
            /\ IF selectedIndex < 0 \/ selectedIndex >= Len(backups)
               THEN /\ rPc' = "returned"
                    /\ rExit' = 0
                    /\ UNCHANGED <<selected, chain, rErr, rOps>>
               ELSE LET selectedBackup == backups[n]
                    IN  /\ selected' = n
                        /\ IF /\ selectedBackup.isIncremental
                              /\ findFull(backups, chainDay(selectedBackup)) = 0
                           THEN /\ rErr' = chainDay(selectedBackup)
                                /\ rFail(rOps)
                                /\ UNCHANGED chain
                           ELSE /\ chain' = findRelatedBackups(backups, selectedBackup)
                                /\ rPc' = "confirm"
                                /\ UNCHANGED <<rErr, rExit, rOps>>
    /\ UNCHANGED <<backups, rI, rFs>>
    /\ rUnchangedOthers

\* main: "Proceed with restore? (yes/no)" and fs.mkdir(config.restoreRoot)
RConfirm ==
    /\ rPc = "confirm"
    /\ \E proceed \in Answers :
        /\ rTyped' = Append(rTyped, Typed(proceed, NaN))
        /\ IF ~isAffirmative(proceed)
           THEN /\ rPc' = "returned"
                /\ rExit' = 0
                /\ UNCHANGED <<rFs, rOps>>
           ELSE \E ok \in BOOLEAN :
                   IF ok
                   THEN /\ rFs' = rFs \cup {RootPath}
                        /\ rOps' = Append(rOps, Op("mkdir", NoKey, 0))
                        /\ rPc' = "mkbase"
                        /\ UNCHANGED rExit
                   ELSE /\ rFail(Append(rOps, Op("mkdir", NoKey, 0)))
                        /\ UNCHANGED rFs
    /\ UNCHANGED <<backups, selected, chain, rI, rErr>>
    /\ rUnchangedOthers

\* one awaited call of restoreBackups: it either succeeds, with effect fs2 on
\* the restore root and control moving to next, or throws
RStep_rollback(at, call, fs2, next, i2) ==
    /\ rPc = at
    /\ \E ok \in BOOLEAN :
        IF ok
        THEN /\ rOps' = Append(rOps, call)
             /\ rFs' = fs2
             /\ rPc' = next
             /\ rI' = i2
             /\ rExit' = IF next = "done" THEN 0 ELSE rExit
        ELSE /\ rFail(Append(rOps, call))
             /\ rFs' = rFs \cap {RootPath}
             /\ UNCHANGED rI
    /\ UNCHANGED <<backups, selected, chain, rErr, rTyped>>
    /\ rUnchangedOthers
RStep(at, call, fs2, next, i2) ==
    /\ rPc = at
    /\ \E ok \in BOOLEAN :
        IF ok
        THEN /\ rOps' = Append(rOps, call)
             /\ rFs' = fs2
             /\ rPc' = next
             /\ rI' = i2
             /\ rExit' = IF next = "done" THEN 0 ELSE rExit
        ELSE /\ rFail(Append(rOps, call))
             /\ UNCHANGED <<rFs, rI>>
    /\ UNCHANGED <<backups, selected, chain, rErr, rTyped>>
    /\ rUnchangedOthers

\* restoreBackups: fs.mkdir(baseDir)
RMkBase ==
    RStep("mkbase", Op("mkdir", NoKey, 0), rFs \cup {BasePath}, "get_full", rI)

\* restoreBackups: downloadFromS3(fullBackup.key, fullBackupPath)
RGetFull ==
    RStep("get_full", Op("get", chain[1].key, 0),
          rFs \cup {TarPath(chain[1].key)}, "untar_full", rI)

\* restoreBackups: tar xzf fullBackupPath -C baseDir
RUntarFull ==
    RStep("untar_full", Op("untar", chain[1].key, 0), rFs, "unlink_full", rI)

\* restoreBackups: fs.unlink(fullBackupPath), then the branch on the length
RUnlinkFull ==
    RStep("unlink_full", Op("unlink", chain[1].key, 0),
          rFs \ {TarPath(chain[1].key)},
          IF needsBasePrepare(Len(chain)) THEN "prep_base" ELSE "final", 1)

\* restoreBackups: xtrabackup --prepare --apply-log-only --target-dir=baseDir
RPrepareBase_final ==
    RStep("prep_base", basePrepareCall(FALSE), rFs,
          IF 1 < Len(chain) THEN "inc_get" ELSE "final", 1)
RPrepareBase ==
    RStep("prep_base", basePrepareCall(TRUE), rFs,
          IF 1 < Len(chain) THEN "inc_get" ELSE "final", 1)

\* restoreBackups loop: downloadFromS3(incBackup.key, incBackupPath)
RIncGet ==
    RStep("inc_get", Op("get", chain[rI + 1].key, rI),
          rFs \cup {TarPath(chain[rI + 1].key)}, "inc_mkdir", rI)

\* restoreBackups loop: fs.mkdir(incDir)
RIncMkdir ==
    RStep("inc_mkdir", Op("mkdir", NoKey, rI), rFs \cup {IncPath(rI)}, "inc_untar", rI)

\* restoreBackups loop: tar xzf incBackupPath -C incDir
RIncUntar ==
    RStep("inc_untar", Op("untar", chain[rI + 1].key, rI), rFs, "inc_unlink", rI)

\* restoreBackups loop: fs.unlink(incBackupPath)
RIncUnlink ==
    RStep("inc_unlink", Op("unlink", chain[rI + 1].key, rI),
          rFs \ {TarPath(chain[rI + 1].key)}, "inc_prep", rI)

\* restoreBackups loop: xtrabackup --prepare ... --incremental-dir=incDir
RIncPrepare ==
    RStep("inc_prep", incPrepareCall(rI, Len(chain)), rFs, "inc_rm", rI)

\* restoreBackups loop: fs.rm(incDir), i++ and the loop test
RIncRm_keep ==
    RStep("inc_rm", Op("rm", NoKey, rI), rFs,
          IF rI + 1 < Len(chain) THEN "inc_get" ELSE "final", rI + 1)
RIncRm ==
    RStep("inc_rm", Op("rm", NoKey, rI), rFs \ {IncPath(rI)},
          IF rI + 1 < Len(chain) THEN "inc_get" ELSE "final", rI + 1)

\* restoreBackups: the final xtrabackup --prepare --target-dir=baseDir
RFinalPrepare ==
    RStep("final", basePrepareCall(FALSE), rFs, "done", rI)

RestoreNext ==
    \/ RListBackups \/ RSelectText \/ RSelectNumber \/ RConfirm
    \/ RMkBase \/ RGetFull \/ RUntarFull \/ RUnlinkFull \/ RPrepareBase
    \/ RIncGet \/ RIncMkdir \/ RIncUntar \/ RIncUnlink \/ RIncPrepare \/ RIncRm
    \/ RFinalPrepare

----------------------------------------------------------------------------
(* Scheduler: src/index.js *)

retentionDays == 30

\* config.backupInterval, one hour, in the shortened day: one second
backupInterval == 1 * MsPerSec

\* an entry of the working root: a directory with what the engine left in it
\* ("empty", "partial": files but no xtrabackup_checkpoints, "complete": with
\* xtrabackup_checkpoints), or a <key>.tar.gz file
Dir(key, content) == [key |-> key, tar |-> FALSE, content |-> content]
TarFile(key) == [key |-> key, tar |-> TRUE, content |-> "file"]

\* fs.mkdir(dir, { recursive: true }): an existing directory is left as it is
mkdir(entries, key) ==
    IF \E e \in entries : ~e.tar /\ e.key = key
    THEN entries
    ELSE entries \cup {Dir(key, "empty")}

\* what a directory of the root holds ("absent" when it does not exist)
contentOf(entries, key) ==
    IF \E e \in entries : ~e.tar /\ e.key = key
    THEN (CHOOSE e \in entries : ~e.tar /\ e.key = key).content
    ELSE "absent"

\* the engine writing into a directory
withContent(entries, key, content) ==
    {e \in entries : e.tar \/ e.key # key} \cup {Dir(key, content)}

\* getCurrentFullBackupDir: today's full backup directory when it exists and
\* holds xtrabackup_checkpoints, null otherwise
getCurrentFullBackupDir_noMarker(entries, date) ==
    IF contentOf(entries, FullKey(formatDate(date))) # "absent"
    THEN FullKey(formatDate(date))
    ELSE NoKey
getCurrentFullBackupDir(entries, date) ==
    IF contentOf(entries, FullKey(formatDate(date))) = "complete"
    THEN FullKey(formatDate(date))
    ELSE NoKey

\* cleanupOldDirectories: the entries whose name starts with "full_backup_"
\* and is not exactly full_backup_<currentDate> (an archive file
\* full_backup_<d>.tar.gz is such an entry)
oldDirectories_none(entries, currentDate) == {}
oldDirectories(entries, currentDate) ==
    {e \in entries : e.key.kind = "full" /\ (e.tar \/ e.key # FullKey(currentDate))}

\* uploadToB2: PutObject stores the object under the key, replacing an
\* object of the same key
putObject(objs, key, date) ==
    {o \in objs : o.key # key} \cup {[key |-> key, lm |-> date]}

\* cleanupOldBackups: cutoffDate
cutoffDate(date) == date - retentionDays * DayMs

\* cleanupOldBackups: the test "object.LastModified < cutoffDate"
isExpired_orEqual(o, cutoff) == o.lm <= cutoff
isExpired(o, cutoff) == o.lm < cutoff

\* cleanupOldBackups: the objects of the response that the loop deletes
expiredInPage(objs, before, cutoff) ==
    {o \in FirstPage(objs, before) : isExpired(o, cutoff)}

\* the further objects (all older than any cutoff) on the first page
olderInPage(before) == IF before < MaxKeys THEN before ELSE MaxKeys

sUnchangedOthers == UNCHANGED <<tz, namingVars, restoreVars, commandVars>>
sameProcess == UNCHANGED restarts

Step(name, ok) == [step |-> name, ok |-> ok]

\* runBackup: catch (error) { logError(...); process.exit(1); }
sExitFailed_swallowed ==
    /\ sPc' = "sweep"
    /\ UNCHANGED sExit
sExitFailed ==
    /\ sPc' = "exited"
    /\ sExit' = 1

\* steps whose code reads the clock: formatDate() / formatDateTime() of the
\* probe and of the procedures, Date.now() of the sweep, and the store
\* stamping LastModified on an upload
ClockReaders == {"probe", "full_start", "inc_start", "full_upload", "inc_upload", "sweep"}

\* time passes; the clock is moved when the next step is one that reads it
Advance ==
    /\ sPc \in ClockReaders
    /\ now + MsPerSec \div 2 <= MaxNow
    /\ now' = now + MsPerSec \div 2
    /\ UNCHANGED <<tickStart, hcUrl, sPc, root, baseDir, cur, tickLog, failedFull,
                   sweepSnap, sweepCut, sweepRes, sExit, storeVars>>
    /\ sUnchangedOthers
    /\ sameProcess

\* runBackup: baseDir = await getCurrentFullBackupDir() and the branch on it
Probe ==
    /\ sPc = "probe"
    /\ baseDir' = getCurrentFullBackupDir(root, now)
    /\ sPc' = IF baseDir' = NoKey THEN "full_start" ELSE "inc_start"
    /\ tickLog' = <<>>
    /\ tickStart' = now
    /\ failedFull' = NoDate
    /\ UNCHANGED <<now, hcUrl, root, cur, sweepSnap, sweepCut, sweepRes, sExit, storeVars>>
    /\ sUnchangedOthers
    /\ sameProcess

\* performFullBackup: currentDate = formatDate(), cleanupOldDirectories; an
\* fs.rm that throws is logged and the entry stays
FullStart ==
    /\ sPc = "full_start"
    /\ cur' = FullKey(formatDate(now))
    /\ \E kept \in SUBSET oldDirectories(root, formatDate(now)) :
        /\ root' = root \ (oldDirectories(root, formatDate(now)) \ kept)
        /\ tickLog' = tickLog \o <<Step("full", TRUE), Step("cleanup", kept = {})>>
    /\ sPc' = "full_mkdir"
    /\ UNCHANGED <<now, tickStart, hcUrl, baseDir, failedFull, sweepSnap, sweepCut, sweepRes,
                   sExit, storeVars>>
    /\ sUnchangedOthers
    /\ sameProcess

\* one awaited call of a backup procedure: on success the root becomes
\* rootOk, the store storeOk and control moves to next; on failure the root
\* becomes one of rootsFail, the error is rethrown and the process exits
ProcStep(at, name, rootOk, storeOk, rootsFail, next) ==
    /\ sPc = at
    /\ \E ok \in BOOLEAN :
        /\ tickLog' = Append(tickLog, Step(name, ok))
        /\ IF ok
           THEN /\ root' = rootOk
                /\ store' = storeOk
                /\ sPc' = next
                /\ UNCHANGED <<sExit, failedFull>>
           ELSE /\ root' \in rootsFail
                /\ sExitFailed
                /\ failedFull' = IF cur.kind = "full" THEN cur.day ELSE failedFull
                /\ UNCHANGED store
    /\ UNCHANGED <<now, tickStart, hcUrl, baseDir, cur, sweepSnap, sweepCut, sweepRes, older>>
    /\ sUnchangedOthers
    /\ sameProcess

\* performFullBackup: fs.mkdir(backupDir)
FullMkdir ==
    ProcStep("full_mkdir", "mkdir", mkdir(root, cur), store, {root}, "full_snapshot")

\* performFullBackup: xtrabackup --backup --target-dir=backupDir
FullSnapshot ==
    ProcStep("full_snapshot", "snapshot", withContent(root, cur, "complete"), store,
             {root, withContent(root, cur, "partial")}, "full_tar")

\* performFullBackup: tar czf tarFile -C backupDir .
FullTar ==
    ProcStep("full_tar", "tar", root \cup {TarFile(cur)}, store,
             {root, root \cup {TarFile(cur)}}, "full_upload")

\* performFullBackup: uploadToB2(tarFile, ...)
FullUpload ==
    ProcStep("full_upload", "put", root, putObject(store, cur, now), {root}, "full_unlink")

\* performFullBackup: fs.unlink(tarFile)
FullUnlink_rmDir ==
    ProcStep("full_unlink", "unlink", {e \in root : e.key # cur}, store, {root}, "sweep")
FullUnlink ==
    ProcStep("full_unlink", "unlink", root \ {TarFile(cur)}, store, {root}, "sweep")

\* performIncrementalBackup: currentDateTime = formatDateTime(), fs.mkdir(incrementalDir)
IncStart ==
    /\ sPc = "inc_start"
    /\ cur' = IncKey(formatDateTime(now))
    /\ \E ok \in BOOLEAN :
        /\ tickLog' = tickLog \o <<Step("inc", TRUE), Step("mkdir", ok)>>
        /\ IF ok
           THEN /\ root' = mkdir(root, cur')
                /\ sPc' = "inc_snapshot"
                /\ UNCHANGED sExit
           ELSE /\ sExitFailed
                /\ UNCHANGED root
    /\ UNCHANGED <<now, tickStart, hcUrl, baseDir, failedFull, sweepSnap, sweepCut, sweepRes, storeVars>>
    /\ sUnchangedOthers
    /\ sameProcess

\* performIncrementalBackup: xtrabackup --backup --incremental-basedir=baseDir
IncSnapshot ==
    ProcStep("inc_snapshot", "snapshot", withContent(root, cur, "complete"), store,
             {root, withContent(root, cur, "partial")}, "inc_tar")

\* performIncrementalBackup: tar czf tarFile -C incrementalDir .
IncTar ==
    ProcStep("inc_tar", "tar", root \cup {TarFile(cur)}, store,
             {root, root \cup {TarFile(cur)}}, "inc_upload")

\* performIncrementalBackup: uploadToB2(tarFile, ...)
IncUpload ==
    ProcStep("inc_upload", "put", root, putObject(store, cur, now), {root}, "inc_unlink")

\* performIncrementalBackup: fs.unlink(tarFile)
IncUnlink ==
    ProcStep("inc_unlink", "unlink", root \ {TarFile(cur)}, store, {root}, "inc_rm")

\* performIncrementalBackup: fs.rm(incrementalDir)
IncRm_all ==
    ProcStep("inc_rm", "rm", {e \in root : e.tar}, store, {root}, "sweep")
IncRm ==
    ProcStep("inc_rm", "rm", {e \in root : e.tar \/ e.key # cur}, store, {root}, "sweep")

\* runBackup: cleanupOldBackups() returns normally whatever its result (its
\* catch only logs), so control reaches pingHealthcheck()
afterSweep_fatal(res) == IF res = "ok" THEN "ping" ELSE "exited"
afterSweep(res) == "ping"

\* cleanupOldBackups: one ListObjects response, then a DeleteObject for every
\* expired object of it, in listing order. A failing list or delete is
\* caught and logged inside the function; a failing delete is the first
\* delete of the loop or one of those of the objects of store.
CleanupOldBackups_skipped ==
    /\ sPc = "sweep"
    /\ sPc' = "ping"
    /\ UNCHANGED <<now, tickStart, hcUrl, root, baseDir, cur, tickLog, failedFull, sweepSnap,
                   sweepCut, sweepRes, sExit, storeVars>>
    /\ sUnchangedOthers
    /\ sameProcess
CleanupOldBackups ==
    /\ sPc = "sweep"
    /\ sweepSnap' = store
    /\ sweepCut' = cutoffDate(now)
    /\ \E res \in {"ok", "list_failed", "delete_failed"} :
        LET expired == Contents(expiredInPage(store, older, cutoffDate(now)), 0)
        IN  /\ sweepRes' = res
            /\ tickLog' = Append(tickLog, Step("sweep", res = "ok"))
            /\ CASE res = "ok" ->
                    /\ store' = store \ Range(expired)
                    /\ older' = older - olderInPage(older)
                 [] res = "list_failed" ->
                    UNCHANGED <<store, older>>
                 [] res = "delete_failed" ->
                    \/ /\ older > 0
                       /\ UNCHANGED <<store, older>>
                    \/ /\ \E n \in 0..(Len(expired) - 1) :
                            store' = store \ {expired[j] : j \in 1..n}
                       /\ older' = older - olderInPage(older)
            /\ sPc' = afterSweep(res)
    /\ UNCHANGED <<now, tickStart, hcUrl, root, baseDir, cur, failedFull, sExit>>
    /\ sUnchangedOthers
    /\ sameProcess

\* pingHealthcheck returns normally whether axios.get resolved or threw;
\* runBackup returns and main sleeps
afterPing_fatal(ok) == IF ok THEN "sleep" ELSE "exited"
afterPing(ok) == "sleep"

\* pingHealthcheck: axios.get when a URL is configured; a failure is logged
PingHealthcheck_unlessConfigured ==
    /\ sPc = "ping"
    /\ IF ~hcUrl
       THEN \E ok \in BOOLEAN : tickLog' = Append(tickLog, Step("ping", ok))
       ELSE UNCHANGED tickLog
    /\ sPc' = "sleep"
    /\ sweepSnap' = {}
    /\ sweepCut' = NoDate
    /\ sweepRes' = "none"
    /\ UNCHANGED <<now, tickStart, hcUrl, root, baseDir, cur, failedFull, sExit, storeVars>>
    /\ sUnchangedOthers
    /\ sameProcess
PingHealthcheck ==
    /\ sPc = "ping"
    /\ \E ok \in (IF hcUrl THEN BOOLEAN ELSE {TRUE}) :
        /\ tickLog' = IF hcUrl THEN Append(tickLog, Step("ping", ok)) ELSE tickLog
        /\ sPc' = afterPing(ok)
    /\ sweepSnap' = {}
    /\ sweepCut' = NoDate
    /\ sweepRes' = "none"
    /\ UNCHANGED <<now, tickStart, hcUrl, root, baseDir, cur, failedFull, sExit, storeVars>>
    /\ sUnchangedOthers
    /\ sameProcess

\* main: setTimeout(resolve, config.backupInterval), then the next runBackup
Sleep_fromTickStart ==
    /\ sPc = "sleep"
    /\ now + backupInterval <= MaxNow
    /\ now' = IF tickStart + backupInterval > now THEN tickStart + backupInterval ELSE now
    /\ sPc' = "probe"
    /\ UNCHANGED <<tickStart, hcUrl, root, baseDir, cur, tickLog, failedFull, sweepSnap, sweepCut,
                   sweepRes, sExit, storeVars>>
    /\ sUnchangedOthers
    /\ sameProcess
Sleep ==
    /\ sPc = "sleep"
    /\ now + backupInterval <= MaxNow
    /\ now' = now + backupInterval
    /\ sPc' = "probe"
    /\ UNCHANGED <<tickStart, hcUrl, root, baseDir, cur, tickLog, failedFull, sweepSnap, sweepCut,
                   sweepRes, sExit, storeVars>>
    /\ sUnchangedOthers
    /\ sameProcess

\* the supervisor starts the process again: with the same process id the
\* working root is the one left behind, with another it is a new directory
Restart ==
    /\ sPc = "exited"
    /\ restarts < MaxRestarts
    /\ restarts' = restarts + 1
    /\ \E samePid \in BOOLEAN :
        /\ root' = IF samePid THEN root ELSE {}
        /\ failedFull' = IF samePid THEN failedFull ELSE NoDate
    /\ sPc' = "probe"
    /\ sExit' = 0 - 1
    /\ baseDir' = NoKey
    /\ cur' = NoKey
    /\ tickLog' = <<>>
    /\ UNCHANGED <<now, tickStart, hcUrl, sweepSnap, sweepCut, sweepRes, storeVars>>
    /\ sUnchangedOthers

SchedNext ==
    \/ Advance \/ Probe \/ FullStart \/ FullMkdir \/ FullSnapshot \/ FullTar
    \/ FullUpload \/ FullUnlink \/ IncStart \/ IncSnapshot \/ IncTar \/ IncUpload
    \/ IncUnlink \/ IncRm \/ CleanupOldBackups \/ PingHealthcheck \/ Sleep \/ Restart

\* the scheduler when it is not run
SchedIdle ==
    /\ now = 0
    /\ hcUrl = FALSE
    /\ tickStart = 0
    /\ sPc = "idle"
    /\ root = {}
    /\ baseDir = NoKey
    /\ cur = NoKey
    /\ tickLog = <<>>
    /\ failedFull = NoDate
    /\ sweepSnap = {}
    /\ sweepCut = NoDate
    /\ sweepRes = "none"
    /\ sExit = 0 - 1
    /\ restarts = 0

\* the naming round trip when it is not exercised
NamingIdle ==
    /\ nT = 0
    /\ nKind = "none"
    /\ nKey = NoKey
    /\ nDate = NoDate
    /\ nDay = NoDate
    /\ nPc = "idle"

\* the command runner when it is not exercised
CommandIdle ==
    /\ dbPassword = <<>>
    /\ command = "none"
    /\ cmdPc = "idle"
    /\ cmdError = <<>>
    /\ stderrLines = <<>>

\* the restore tool before it runs
RestoreIdle ==
    /\ rPc = "list"
    /\ backups = <<>>
    /\ selected = 0
    /\ chain = <<>>
    /\ rI = 0
    /\ rFs = {}
    /\ rOps = <<>>
    /\ rErr = NoDate
    /\ rExit = 0 - 1
    /\ rTyped = <<>>

----------------------------------------------------------------------------
(* Specification of the naming round trip *)

NamingInstants ==
    {d * DayMs + s * MsPerSec + ms :
        d \in 0..(NamingDays - 1), s \in 0..(SecPerDay - 1), ms \in {0, 1, MsPerSec - 1}}

NamingInit ==
    /\ tz \in TzOffsets
    /\ nT \in NamingInstants
    /\ nKind \in {"full", "inc"}
    /\ nKey = NoKey
    /\ nDate = NoDate
    /\ nDay = NoDate
    /\ nPc = "encode"
    /\ store = {} /\ older = 0
    /\ RestoreIdle
    /\ SchedIdle
    /\ CommandIdle

\* scheduler: performFullBackup / performIncrementalBackup name the archive
NamingEncode ==
    /\ nPc = "encode"
    /\ nKey' = IF nKind = "full" THEN FullKey(formatDate(nT))
                                 ELSE IncKey(formatDateTime(nT))
    /\ nPc' = "decode"
    /\ UNCHANGED <<tz, nT, nKind, nDate, nDay, storeVars, restoreVars, schedVars, commandVars>>

\* restore tool: listBackups parses the key
NamingDecode ==
    /\ nPc = "decode"
    /\ nDate' = decodeDate(nKey, tz)
    /\ nPc' = "day"
    /\ UNCHANGED <<tz, nT, nKind, nKey, nDay, storeVars, restoreVars, schedVars, commandVars>>

\* restore tool: findRelatedBackups derives the calendar day of the record
NamingDay ==
    /\ nPc = "day"
    /\ nDay' = formatDate(nDate)
    /\ nPc' = "done"
    /\ UNCHANGED <<tz, nT, nKind, nKey, nDate, storeVars, restoreVars, schedVars, commandVars>>

NamingNext == NamingEncode \/ NamingDecode \/ NamingDay

SpecNaming == NamingInit /\ [][NamingNext]_vars

----------------------------------------------------------------------------
(* Specification of the restore tool: one run of main over a store drawn   *)
(* from bounded families                                                   *)

MaxLater == 18

StoredObject(key) ==
    [key |-> key, lm |-> (key.day * SecPerDay + key.sod) * MsPerSec + 1]

\* two days, each with or without its full backup and some incrementals
SmallKeys ==
    {FullKey(1), FullKey(2),
     IncKey([day |-> 1, sod |-> 0]), IncKey([day |-> 1, sod |-> SecPerDay - 1]),
     IncKey([day |-> 2, sod |-> 0]), IncKey([day |-> 2, sod |-> 1]),
     IncKey([day |-> 2, sod |-> SecPerDay - 1])}

SmallStores == {{StoredObject(k) : k \in ks} : ks \in SUBSET SmallKeys}

\* the j-th key written from day 2 on by a scheduler that writes, every day,
\* the full backup and then one incremental per second
LaterKey(j) ==
    LET d == 2 + (j - 1) \div (SecPerDay + 1)
        r == (j - 1) % (SecPerDay + 1)
    IN  IF r = 0 THEN FullKey(d) ELSE IncKey([day |-> d, sod |-> r - 1])

\* day 1 with all its incrementals, with or without its full backup, followed
\* by m later keys
BigStore(hasFull, m) ==
    {StoredObject(k) :
        k \in (IF hasFull THEN {FullKey(1)} ELSE {})
              \cup {IncKey([day |-> 1, sod |-> x]) : x \in 0..(SecPerDay - 1)}
              \cup {LaterKey(j) : j \in 1..m}}

BigStores == {BigStore(f, m) : f \in BOOLEAN, m \in (MaxLater - 2)..MaxLater}

\* day 1 with nothing, its full backup, or its full backup and an
\* incremental, next to objects that are not backups
OddStores ==
    {{StoredObject(k) : k \in ks \cup others} :
        ks \in {{}, {FullKey(1)}, {FullKey(1), IncKey([day |-> 1, sod |-> 1])}},
        others \in {{OtherArchiveKey}, {PlainKey}, {OtherArchiveKey, PlainKey}}}

RestoreInit ==
    /\ tz \in TzOffsets
    /\ store \in SmallStores \cup BigStores \cup OddStores
    /\ older = 0
    /\ RestoreIdle
    /\ NamingIdle
    /\ SchedIdle
    /\ CommandIdle

SpecRestore == RestoreInit /\ [][RestoreNext]_vars

IsPrepare(o) == o.op = "prepare"

\* the engine merges a restore has invoked, in order
Prepares == SelectSeq(rOps, IsPrepare)

\* the incrementals after the full backup in the resolved chain
ChainK == Len(chain) - 1

C3_FullOnly ==
    (rPc = "done" /\ ChainK = 0) =>
        /\ Prepares = <<[op |-> "prepare", key |-> NoKey, logOnly |-> FALSE, inc |-> 0]>>
        /\ \A j \in 1..Len(rOps) : IsPrepare(rOps[j]) => ~rOps[j].logOnly

C3_Witness == rPc = "done" /\ ChainK = 0 /\ ~chain[1].isIncremental

\* the selection the operator made
Target == backups[selected]

\* the catalog incrementals of calendar day d between two instants
CatalogIncs(d, from, to) ==
    {b \in Range(backups) :
        b.isIncremental /\ formatDate(b.date) = d /\ from <= b.date /\ b.date <= to}

\* C4 (as stated): a full target resolves to itself; an incremental target
\* whose day's full is in the catalog resolves to that full followed by
\* exactly the catalog incrementals of that calendar day with timestamp
\* between the full's and the target's, ascending, the target being last.
C4_Resolve ==
    (rPc = "confirm") =>
        IF ~Target.isIncremental
        THEN chain = <<Target>>
        ELSE LET d == formatDate(Target.date)
                 incs == CatalogIncs(d, chain[1].date, Target.date)
             IN  /\ ~chain[1].isIncremental /\ chain[1].key = FullKey(d)
                 /\ Range(Tail(chain)) = incs
                 /\ Len(chain) = 1 + Cardinality(incs)
                 /\ \A i \in 2..(Len(chain) - 1) : chain[i].date < chain[i + 1].date
                 /\ chain[Len(chain)] = Target

C6_WholeStore ==
    (/\ selected > 0
     /\ Target.isIncremental
     /\ FullKey(formatDate(Target.date)) \in StoreKeys(store))
    => /\ rErr = NoDate
       /\ chain # <<>>
       /\ chain[1].key = FullKey(formatDate(Target.date))
       /\ \A o \in store :
            (/\ o.key.kind = "inc"
             /\ o.key.day = formatDate(Target.date)
             /\ decodeDate(o.key, tz) >= chain[1].date
             /\ decodeDate(o.key, tz) <= Target.date)
            => o.key \in {chain[i].key : i \in 1..Len(chain)}

BackupKinds == {"full", "inc"}

\* C16 (as stated): an object that is neither a full nor an incremental
\* backup is in no record of the catalog and of no chain, and a run that
\* failed right after its listing call failed because the store refused the
\* listing, leaving no catalog.
C16_MalformedSkipped ==
    /\ \A i \in 1..Len(backups) : backups[i].key.kind \in BackupKinds
    /\ \A i \in 1..Len(chain) : chain[i].key.kind \in BackupKinds
    /\ (rPc = "failed" /\ Len(rOps) = 1 /\ rErr = NoDate) => backups = <<>>

\* the restore tool has created a file or directory, fetched an object or
\* invoked tar or xtrabackup
Mutated == rFs # {} \/ \E i \in 1..Len(rOps) : rOps[i].op # "list"

\* the operator entered a number of the listing
ValidSelection ==
    /\ rTyped # <<>>
    /\ rTyped[1].text = "number"
    /\ rTyped[1].num \in 1..Len(backups)

\* the operator entered "yes", in any case, at the second prompt
Confirmed == Len(rTyped) = 2 /\ rTyped[2].text \in {"yes", "YES"}

\* C17: the tool has gone beyond the listing only if the operator entered a
\* number of the listing and then "yes"; after a quit letter, another text, a
\* number outside the listing or any other answer to the confirmation, the
\* tool has returned having issued the listing call alone.
C17_NothingBeforeConfirmation ==
    /\ Mutated => (ValidSelection /\ Confirmed)
    /\ (rTyped # <<>> /\ ~(ValidSelection /\ Confirmed)) =>
        /\ ~Mutated
        /\ rOps = <<Op("list", NoKey, 0)>>
        /\ (~ValidSelection \/ Len(rTyped) = 2) => (rPc = "returned" /\ rExit = 0)

C17_Witness ==
    /\ rTyped = <<Typed("number", 2), Typed("YES", NaN)>>
    /\ rPc = "get_full"
    /\ rFs = {RootPath, BasePath}

\* the directories of a set of paths
Directories(fs) == {q \in fs : q.t \in {"root", "base", "incdir"}}

\* C18: a failed run takes no further step; the step that fails sets exit
\* code 1, issues nothing after the failing call and removes no directory;
\* and no step, failing or not, removes the base directory.
C18_FailureStopsRestore ==
    [][/\ rPc # "failed"
       /\ rPc' = "failed" =>
            /\ rExit' = 1
            /\ Len(rOps') <= Len(rOps) + 1
            /\ Directories(rFs) \subseteq rFs'
       /\ BasePath \in rFs => BasePath \in rFs'
       /\ \A i \in 1..Len(rOps') :
            rOps'[i].op \in {"rm", "unlink"} =>
                (rOps'[i].inc >= 1 \/ rOps'[i].key # NoKey)]_vars

C18_Witness ==
    /\ rPc = "failed" /\ rExit = 1
    /\ BasePath \in rFs
    /\ IncPath(1) \in rFs
    /\ rOps[Len(rOps)].op = "prepare"

IsIncOp(o) == o.inc >= 1

\* the calls of the loop of restoreBackups, in the order issued
IncOps == SelectSeq(rOps, IsIncOp)

\* the calls of one iteration of the loop
IncSteps == <<"get", "mkdir", "untar", "unlink", "prepare", "rm">>

\* C23: the calls issued for the incrementals are, in order, download,
\* mkdir, extract, unlink, merge and directory removal for inc_1, then the
\* same for inc_2, and so on, each on the archive of that position of the
\* chain; at most one incremental directory exists, the one of the
\* iteration under way.
C23_IncrementalsInOrder ==
    /\ \A p \in 1..Len(IncOps) :
        LET i == ((p - 1) \div Len(IncSteps)) + 1
            r == ((p - 1) % Len(IncSteps)) + 1
        IN  /\ IncOps[p].inc = i
            /\ IncOps[p].op = IncSteps[r]
            /\ i < Len(chain)
            /\ IncOps[p].op \in {"get", "untar", "unlink"} => IncOps[p].key = chain[i + 1].key
    /\ \A q \in rFs : q.t = "incdir" =>
        /\ Len(IncOps) > 0
        /\ q.i = IncOps[Len(IncOps)].inc

C23_Witness ==
    /\ rPc = "inc_untar" /\ rI = 2
    /\ IncPath(2) \in rFs
    /\ IncPath(1) \notin rFs
    /\ chain[2].date < chain[3].date

\* C24: a restore invokes the finalizing merge (a prepare without
\* --apply-log-only) at most once and no prepare after it, and has completed
\* only with the finalizing merge of the base as its last call, succeeded.
C24_FinalMergeLast ==
    /\ Cardinality({p \in 1..Len(rOps) : IsPrepare(rOps[p]) /\ ~rOps[p].logOnly}) <= 1
    /\ \A p \in 1..Len(rOps) :
        (IsPrepare(rOps[p]) /\ ~rOps[p].logOnly) =>
            \A q \in (p + 1)..Len(rOps) : ~IsPrepare(rOps[q])
    /\ rPc = "done" =>
        /\ rOps # <<>>
        /\ rOps[Len(rOps)] = basePrepareCall(FALSE)
        /\ rExit = 0
    /\ (rPc = "failed" /\ rOps # <<>> /\ rOps[Len(rOps)] = basePrepareCall(FALSE)) => rExit = 1

C24_Witness ==
    /\ rPc = "done"
    /\ ChainK = 2
    /\ Len(Prepares) = 4
    /\ Prepares[4] = basePrepareCall(FALSE)

IsGet(o) == o.op = "get"

\* the archives downloaded so far, in order
Gets == SelectSeq(rOps, IsGet)

\* the archives the base directory holds when the merge of the archive
\* downloaded last is invoked: the full backup and the incrementals merged
\* into it by the earlier iterations
Accumulated == [p \in 1..(Len(Gets) - 1) |-> Gets[p].key]

\* performIncrementalBackup: --incremental-basedir is the directory of the
\* day's full backup, which no procedure modifies, so an incremental holds
\* the changes since that full backup alone
takenRelativeTo(key) == <<FullKey(key.day)>>

\* C29 (as stated): when the merge of an incremental is invoked, the base
\* directory holds exactly the state the scheduler took that incremental
\* relative to.
C29_ChainConsistency ==
    rPc = "inc_prep" => Accumulated = takenRelativeTo(chain[rI + 1].key)

----------------------------------------------------------------------------
(* Specification of the scheduler: the process from its start, restarted   *)
(* by its supervisor after an exit, over a store that earlier runs filled  *)

\* records left by earlier runs: one already expired at the start, the full
\* backup of the day of the first cutoff, uploaded at its midnight, an
\* incremental of that day that expires while the scheduler is followed,
\* and the full backup of today
SchedObjects ==
    {[key |-> FullKey(StartDay - retentionDays - 1),
      lm |-> cutoffDate(StartNow) - MsPerSec \div 2],
     [key |-> FullKey(StartDay - retentionDays),
      lm |-> cutoffDate(StartNow) - MsPerSec],
     [key |-> IncKey([day |-> StartDay - retentionDays, sod |-> 2]),
      lm |-> cutoffDate(StartNow) + MsPerSec],
     [key |-> FullKey(StartDay), lm |-> StartNow - MsPerSec \div 2]}

\* objects under the prefix that are no backup records: "readme.txt", last
\* modified before the cutoff, and "notes.tar.gz", modified recently
UnrelatedObjects ==
    {[key |-> PlainKey, lm |-> cutoffDate(StartNow) - MsPerSec],
     [key |-> OtherArchiveKey, lm |-> StartNow - MsPerSec]}

\* how many older full backups the store holds besides
OlderCounts == {0, MaxKeys - 1, MaxKeys}

SchedInit ==
    /\ tz = 0
    /\ NamingIdle
    /\ RestoreIdle
    /\ CommandIdle
    /\ \/ store = {} /\ older = 0
       \/ store = SchedObjects /\ older \in OlderCounts
       \/ store = SchedObjects \cup UnrelatedObjects /\ older = 0
    /\ now = StartNow
    /\ hcUrl \in BOOLEAN
    /\ tickStart = StartNow
    /\ sPc = "probe"
    /\ root = {}
    /\ baseDir = NoKey
    /\ cur = NoKey
    /\ tickLog = <<>>
    /\ failedFull = NoDate
    /\ sweepSnap = {}
    /\ sweepCut = NoDate
    /\ sweepRes = "none"
    /\ sExit = 0 - 1
    /\ restarts = 0

Spec == SchedInit /\ [][SchedNext]_vars

\* C1: a tick's probe starts exactly one procedure: the full procedure when
\* the root holds no directory full_backup_<current UTC day> containing
\* xtrabackup_checkpoints, otherwise the incremental procedure with that
\* directory as its base.
C1_ProbeDecides ==
    [][(sPc = "probe" /\ sPc' # "probe") =>
        LET today == [kind |-> "full", day |-> now \div DayMs, sod |-> 0]
            marked == \E e \in root : ~e.tar /\ e.key = today /\ e.content = "complete"
        IN  /\ sPc' \in {"full_start", "inc_start"}
            /\ sPc' = "full_start" <=> ~marked
            /\ sPc' = "inc_start" => (baseDir' = today /\ root' = root)]_vars

C1_Witness ==
    /\ sPc = "inc_start"
    /\ baseDir = FullKey(formatDate(now))
    /\ contentOf(root, baseDir) = "complete"

\* C9 (as stated): after a sweep that met no store error, a record that was
\* in the store when the sweep started is gone if and only if its
\* lastModified is before now - 30 days, for catalogs of any size.
C9_ExactlyExpired ==
    (sPc = "ping" /\ sweepRes = "ok") =>
        \A o \in sweepSnap : (o \notin store) <=> (o.lm < sweepCut)

\* C10 (as stated): after a full procedure failed, the probe on the same
\* working root and the same calendar day yields no base directory.
C10_FailedFullNotAdvanced ==
    (sPc = "probe" /\ failedFull # NoDate /\ formatDate(now) = failedFull)
        => getCurrentFullBackupDir(root, now) = NoKey

\* the awaited calls of the two backup procedures, as logged in tickLog
ProcedureSteps == {"mkdir", "snapshot", "tar", "put", "unlink", "rm"}

\* positions of tickLog holding a step with the given names
LogAt(names) == {i \in 1..Len(tickLog) : tickLog[i].step \in names}

\* a call of the tick's backup procedure failed
ProcedureFailed == \E i \in LogAt(ProcedureSteps) : ~tickLog[i].ok

\* the tick's backup procedure returned: its last call succeeded
ProcedureDone ==
    \E i \in LogAt({"unlink", "rm"}) :
        /\ tickLog[i].ok
        /\ tickLog[i].step = (IF tickLog[1].step = "full" THEN "unlink" ELSE "rm")

\* C11: a failing call of the backup procedure is the last thing the process
\* does: the process is exited with code 1, the failed call is the last
\* entry of the tick, and the tick started one procedure and repeated no call.
C11_FailureIsFatal ==
    \A i \in LogAt(ProcedureSteps) :
        ~tickLog[i].ok =>
            /\ i = Len(tickLog)
            /\ sPc = "exited" /\ sExit = 1
            /\ Cardinality(LogAt({"full", "inc"})) = 1
            /\ \A j \in LogAt(ProcedureSteps) : tickLog[j].step = tickLog[i].step => j = i

C11_Witness ==
    /\ sPc = "exited" /\ sExit = 1
    /\ tickLog # <<>>
    /\ tickLog[Len(tickLog)] = Step("put", FALSE)

\* C12 (as stated): every tick that ended, by returning to the loop or by
\* the exit of the process, ran the sweep, and pinged after it when a URL is
\* configured.
C12_AsStated ==
    sPc \in {"sleep", "exited"} =>
        \E j \in LogAt({"sweep"}) :
            hcUrl => \E k \in LogAt({"ping"}) : j < k

\* C12 (amended): a tick whose procedure returned runs the sweep and then,
\* when a URL is configured, the ping, the sweep having returned before the
\* ping is sent; a tick whose procedure failed runs neither.
C12_SweepThenPing ==
    /\ sPc = "sleep" =>
        /\ Cardinality(LogAt({"sweep"})) = 1
        /\ Cardinality(LogAt({"ping"})) = (IF hcUrl THEN 1 ELSE 0)
    /\ \A k \in LogAt({"ping"}) : k > 1 /\ tickLog[k - 1].step = "sweep"
    /\ LogAt({"sweep"}) # {} => ProcedureDone
    /\ ProcedureFailed => LogAt({"sweep", "ping"}) = {}

C12_Witness ==
    /\ sPc = "sleep"
    /\ Len(tickLog) > 1
    /\ tickLog[Len(tickLog)].step = "ping"
    /\ tickLog[Len(tickLog) - 1] = Step("sweep", FALSE)

C15_PingNeverFatal ==
    [][(sPc = "ping" /\ sPc' # "ping") =>
        /\ sPc' = "sleep"
        /\ sExit' = 0 - 1
        /\ UNCHANGED <<root, store, older, now, restarts, baseDir, cur>>]_vars

C15_Witness ==
    /\ sPc = "probe"
    /\ restarts = 0
    /\ now >= StartNow + backupInterval
    /\ tickLog # <<>>
    /\ tickLog[Len(tickLog)] = Step("ping", FALSE)

\* a full backup that the sweep in progress removed while it kept an
\* incremental of the same calendar day
OrphanedBy(f, i) ==
    /\ f \in sweepSnap \ store /\ f.key.kind = "full"
    /\ i \in sweepSnap \cap store /\ i.key.kind = "inc"
    /\ i.key.day = f.key.day

\* C19 (as stated): after a sweep the store holds no incremental, not older
\* than the cutoff, whose same-day full backup that sweep removed.
C19_AsStated ==
    sPc = "ping" =>
        ~\E f \in sweepSnap, i \in sweepSnap : OrphanedBy(f, i) /\ i.lm >= sweepCut

\* C19 (amended): the sweep removes an object only if its lastModified is
\* before the cutoff, whatever else the store holds; a full backup removed
\* while an incremental of its day is kept has a lastModified before the
\* cutoff.
C19_RemovedByAgeOnly ==
    sPc = "ping" =>
        /\ \A o \in sweepSnap \ store : o.lm < sweepCut
        /\ \A f \in sweepSnap, i \in sweepSnap : OrphanedBy(f, i) => f.lm < sweepCut

C19_Witness ==
    /\ sPc = "ping" /\ sweepRes = "ok"
    /\ \E f \in sweepSnap, i \in sweepSnap :
        /\ OrphanedBy(f, i)
        /\ f.lm < sweepCut /\ sweepCut <= i.lm
        /\ f.lm \div DayMs = f.key.day /\ i.lm \div DayMs = i.key.day

\* the working root holds a completed full backup whose archive the store
\* received less than a day ago
RecentFull ==
    \E e \in root :
        /\ ~e.tar /\ e.key.kind = "full" /\ e.content = "complete"
        /\ \E f \in store : f.key = e.key /\ now - f.lm < DayMs

\* C20 (as stated): a tick that starts while the last full backup of this
\* working root is less than a day old takes an incremental backup.
C20_IncrementalWithinADay ==
    [][(sPc = "probe" /\ sPc' # "probe" /\ RecentFull) => sPc' = "inc_start"]_vars

\* C22: a tick begins only at the probe, which is reached only from the
\* sleep of the loop or at the start of a process; the sleep ends one
\* interval after the previous tick's last step, so no earlier than one
\* interval after that tick began, and the tick in between touched the root
\* last; every step is taken from the one position the process is at.
C22_TicksInSequence ==
    [][/\ (sPc' = "probe" /\ sPc # "probe") => sPc \in {"sleep", "exited"}
       /\ (sPc = "sleep" /\ sPc' # "sleep") =>
            /\ sPc' = "probe"
            /\ now' = now + backupInterval
            /\ now >= tickStart
            /\ root' = root /\ store' = store
       /\ tickStart' # tickStart => (sPc = "probe" /\ tickStart' = now)
       /\ Len(tickLog') > Len(tickLog) => sPc' # sPc]_vars

C22_Witness ==
    /\ sPc = "probe" /\ restarts = 0
    /\ tickLog # <<>>
    /\ now - backupInterval - tickStart >= backupInterval

StepNames(log) == [i \in 1..Len(log) |-> log[i].step]

IsPrefix(a, b) == Len(a) <= Len(b) /\ a = SubSeq(b, 1, Len(a))

\* steps whose failure ends neither the procedure nor the tick
BestEffortSteps == {"cleanup", "sweep", "ping"}

\* every step of the log but the last succeeded or is a best-effort one
OnlyLastFailed(log) ==
    \A i \in 1..(Len(log) - 1) : log[i].ok \/ log[i].step \in BestEffortSteps

FullTick == <<"full", "cleanup", "mkdir", "snapshot", "tar", "put", "unlink", "sweep", "ping">>

IncTick == <<"inc", "mkdir", "snapshot", "tar", "put", "unlink", "rm", "sweep", "ping">>

\* C25: a tick that runs the full procedure issues snapshot, tar, put and
\* unlink in that order, each after the previous one succeeded; when the
\* procedure has returned the store holds full_backup_<day>, the archive
\* file is gone and the directory is there; after a failed snapshot or tar
\* no put was issued, the directory is there and the process has exited.
C25_FullProcedure ==
    (tickLog # <<>> /\ tickLog[1].step = "full") =>
        /\ IsPrefix(StepNames(tickLog), FullTick)
        /\ OnlyLastFailed(tickLog)
        /\ (sPc = "sweep" /\ ProcedureDone) =>
            /\ cur = FullKey(cur.day)
            /\ cur \in StoreKeys(store)
            /\ TarFile(cur) \notin root
            /\ contentOf(root, cur) = "complete"
        /\ (~tickLog[Len(tickLog)].ok /\ tickLog[Len(tickLog)].step \in {"snapshot", "tar"}) =>
            /\ LogAt({"put"}) = {}
            /\ contentOf(root, cur) # "absent"
            /\ sPc = "exited" /\ sExit = 1

C25_Witness ==
    /\ sPc = "sweep" /\ ProcedureDone
    /\ tickLog[1].step = "full"
    /\ cur \in StoreKeys(store)
    /\ now \div DayMs > StartDay

IncPositions == {"inc_start", "inc_snapshot", "inc_tar", "inc_upload", "inc_unlink", "inc_rm"}

\* the entries of the root named full_backup_...
FullEntries(entries) == {e \in entries : e.key.kind = "full"}

\* C26: a tick that runs the incremental procedure issues snapshot, tar,
\* put, unlink and rm in that order, each after the previous one succeeded;
\* no step of the procedure, succeeding or failing, changes the
\* full_backup_ entries of the root, so the probe's answer stays the same.
C26_IncrementalProcedure ==
    [][/\ (tickLog' # <<>> /\ tickLog'[1].step = "inc") =>
            /\ IsPrefix(StepNames(tickLog'), IncTick)
            /\ OnlyLastFailed(tickLog')
       /\ sPc \in IncPositions =>
            /\ FullEntries(root') = FullEntries(root)
            /\ getCurrentFullBackupDir(root', now) = getCurrentFullBackupDir(root, now)]_vars

C26_Witness ==
    /\ sPc = "sweep" /\ ProcedureDone
    /\ tickLog[1].step = "inc"
    /\ contentOf(root, baseDir) = "complete"
    /\ root = {Dir(baseDir, "complete")}
    /\ cur \in StoreKeys(store)

\* the names of the full-backup directories of the root
FullDirNames(entries) == {e.key : e \in {x \in FullEntries(entries) : ~x.tar}}

\* C27 (as stated): the mkdir of the full procedure creates the directory
\* full_backup_<today>, which did not exist, and the snapshot is invoked on
\* it while it is empty.
C27_FreshTarget ==
    [][(sPc = "full_mkdir" /\ sPc' = "full_snapshot") =>
        /\ contentOf(root, cur) = "absent"
        /\ contentOf(root', cur') = "empty"]_vars

\* C28 (as stated): at the snapshot step of the full procedure the root
\* holds no full_backup_ entry but the directory of the day; after the
\* procedure returned it holds one full-backup directory; a full-backup
\* directory disappears from the root only in the first step of a full
\* procedure.
C28_AsStated ==
    [][/\ sPc' = "full_snapshot" => FullEntries(root') \subseteq {e \in root' : ~e.tar /\ e.key = cur'}
       /\ (sPc' = "sweep" /\ tickLog'[1].step = "full") =>
            Cardinality(FullDirNames(root')) <= 1
       /\ (sPc # "exited" /\ ~(FullDirNames(root) \subseteq FullDirNames(root'))) =>
            sPc = "full_start"]_vars

\* C28 (amended): the same, for a full procedure whose removals of old
\* entries all succeeded; a removal that fails is logged and the entry
\* stays, the procedure going on to its snapshot.
C28_RollingWindow ==
    [][/\ (sPc' = "full_snapshot" /\ tickLog'[2] = Step("cleanup", TRUE)) =>
            FullEntries(root') \subseteq {e \in root' : ~e.tar /\ e.key = cur'}
       /\ (sPc' = "sweep" /\ tickLog'[1].step = "full" /\ tickLog'[2].ok) =>
            Cardinality(FullDirNames(root')) = 1
       /\ (sPc = "full_start" /\ sPc' # "full_start") =>
            /\ sPc' = "full_mkdir"
            /\ root' \subseteq root
            /\ root \ root' \subseteq oldDirectories(root, formatDate(now))
       /\ (sPc # "exited" /\ ~(FullDirNames(root) \subseteq FullDirNames(root'))) =>
            sPc = "full_start"]_vars

C28_Witness ==
    /\ sPc = "full_snapshot"
    /\ tickLog[2] = Step("cleanup", TRUE)
    /\ restarts = 0
    /\ now \div DayMs > StartDay
    /\ root = {Dir(cur, "empty")}

\* C30 (as stated): an incremental that was uploaded carries in its key the
\* day of the full-backup directory it was taken relative to.
C30_SameDayAsBase ==
    (tickLog # <<>> /\ tickLog[1].step = "inc" /\ \E i \in LogAt({"put"}) : tickLog[i].ok)
        => cur.day = baseDir.day

\* the objects a step has put into the store
Uploaded == store' \ store

\* the store holds the full archive of the day
HasFullOf(objs, day) == \E f \in objs : f.key = FullKey(day)

\* C31: every incremental archive is uploaded into a store that holds the
\* full archive of the same calendar day: the scheduler never uploads an
\* incremental for a day whose full upload did not complete, also after a
\* full procedure failed at compression or upload and the process was
\* restarted on the same working root.
C31_IncrementalHasFull ==
    [][\A o \in Uploaded : o.key.kind = "inc" => HasFullOf(store', o.key.day)]_vars

\* C32: the full archive of a day is never uploaded again once an
\* incremental archive of that day is in the store, so the full archive
\* stored under a day's key is the one the day's incrementals were taken
\* relative to, also when the process is restarted during the day with a
\* new, empty working root.
C32_FullNeverReplaced ==
    [][\A o \in Uploaded :
          o.key.kind = "full" =>
             ~\E i \in store : i.key.kind = "inc" /\ i.key.day = o.key.day]_vars

\* the keys that follow the naming scheme of the backup archives
IsBackupKey(key) == key.kind \in {"full", "inc"}

\* C33: the sweep deletes only backup records: an object whose key lacks
\* the archive extension or does not follow the naming scheme is never
\* removed from the store, whatever its lastModified.
C33_OnlyBackupsDeleted ==
    [][\A o \in store \ store' : IsBackupKey(o.key)]_vars

----------------------------------------------------------------------------
(* Specification of the two tools side by side: one run of either the      *)
(* scheduler or the restore tool, for statements about both                *)

ToolsInit == SchedInit \/ RestoreInit

ToolsNext ==
    \/ sPc # "idle" /\ SchedNext
    \/ sPc = "idle" /\ RestoreNext

SpecTools == ToolsInit /\ [][ToolsNext]_vars

\* the restore tool stopped on a failed call to the store
RestoreStoreFailure ==
    /\ rPc = "failed" /\ rErr = NoDate
    /\ rOps # <<>>
    /\ rOps[Len(rOps)].op \in {"list", "get"}
    /\ ~displayThrows(backups)

\* C14 (as stated): a failed put, a failed sweep (list or delete) or a
\* failed get or list of the restore tool ends the run with exit code 1, and
\* the tick of a failed put or sweep has no ping.
C14_AsStated ==
    /\ \A i \in LogAt({"put", "sweep"}) :
        ~tickLog[i].ok =>
            /\ sPc = "exited" /\ sExit = 1
            /\ LogAt({"ping"}) = {}
    /\ RestoreStoreFailure => rExit = 1

\* C14 (amended): a failed put ends the tick and the process with exit code
\* 1, without sweep or ping and without a second put; a failed get or list
\* of the restore tool ends it with exit code 1 without a second attempt; a
\* failed list or delete of the sweep ends the sweep only: the process stays
\* alive, the tick goes on to its ping and its sleep, and the sweep is not
\* run again in the tick.
C14_StoreFailures ==
    /\ \A i \in LogAt({"put"}) :
        ~tickLog[i].ok =>
            /\ i = Len(tickLog)
            /\ sPc = "exited" /\ sExit = 1
            /\ Cardinality(LogAt({"put"})) = 1
    /\ \A i \in LogAt({"sweep"}) :
        ~tickLog[i].ok =>
            /\ sPc \in {"ping", "sleep", "probe"} /\ sExit = 0 - 1
            /\ Cardinality(LogAt({"sweep"})) = 1
            /\ (sPc # "ping" /\ hcUrl) => tickLog[Len(tickLog)].step = "ping"
    /\ RestoreStoreFailure =>
        /\ rExit = 1
        /\ Cardinality({i \in 1..Len(rOps) : rOps[i] = rOps[Len(rOps)]}) = 1

C14_Witness ==
    /\ sPc = "sleep"
    /\ Len(tickLog) > 1
    /\ tickLog[Len(tickLog) - 1] = Step("sweep", FALSE)
    /\ tickLog[Len(tickLog)].step = "ping"
    /\ sweepRes = "none"
    /\ \E o \in store : o.lm < cutoffDate(now)

----------------------------------------------------------------------------
(* Specification of the command runner and of the error lines it leads to. *)
(* A text is a sequence of pieces; a piece is a word without whitespace,   *)
(* one character of the password, or the whitespace character " ".        *)

\* longest password explored
MaxPwLen == 3

\* the characters a password is made of: a letter, whitespace, the mask's character
PwChars == {"s", " ", "*"}

\* DB_PASSWORD is a required variable: the scheduler exits when it is empty
Passwords == UNION {[1..n -> PwChars] : n \in 1..MaxPwLen}

\* \s of the regular expression
IsSpace(piece) == piece = " "

\* `--password=${config.dbPassword}`
PasswordArg(pw) == <<"--password=">> \o pw

\* the replacement text "--password=***"
Masked == <<"--password=", "*", "*", "*">>

\* the invocations of runCommand: command and args
Commands == {"full", "inc", "tar", "prepare", "untar"}

SchedulerCommands == {"full", "inc", "tar"}

commandFile(c) == IF c \in {"tar", "untar"} THEN "tar" ELSE "xtrabackup"

commandArgs(c, pw) ==
    CASE c = "full" ->
           << <<"--backup">>, <<"--user=", "dbUser">>, PasswordArg(pw),
              <<"--host=", "dbHost">>, <<"--port=", "dbPort">>,
              <<"--target-dir=", "backupDir">>, <<"--no-lock">> >>
      [] c = "inc" ->
           << <<"--backup">>, <<"--user=", "dbUser">>, PasswordArg(pw),
              <<"--host=", "dbHost">>, <<"--port=", "dbPort">>,
              <<"--target-dir=", "incrementalDir">>,
              <<"--incremental-basedir=", "baseDir">>, <<"--no-lock">> >>
      [] c = "tar" ->
           << <<"czf">>, <<"tarFile">>, <<"-C">>, <<"backupDir">>, <<".">> >>
      [] c = "prepare" ->
           << <<"--prepare">>, <<"--apply-log-only">>, <<"--target-dir=", "baseDir">> >>
      [] c = "untar" ->
           << <<"xzf">>, <<"fullBackupPath">>, <<"-C">>, <<"baseDir">> >>

\* arg.startsWith("--password=")
startsWithPassword(arg) == Len(arg) >= 1 /\ arg[1] = "--password="

\* args.map(arg => arg.startsWith("--password=") ? "--password=***" : arg)
safeArgs(args) ==
    [i \in DOMAIN args |-> IF startsWithPassword(args[i]) THEN Masked ELSE args[i]]

\* args.join(" ")
RECURSIVE join(_)
join(args) ==
    IF args = <<>> THEN <<>>
    ELSE IF Len(args) = 1 THEN args[1]
    ELSE args[1] \o <<" ">> \o join(Tail(args))

\* how the command ended: exit code 0, a non-zero exit code, killed by a
\* signal (code null), or the process could not be spawned
Outcomes == {"0", "1", "null", "spawnError"}

\* `${command} ${safeArgs.join(" ")} failed with exit code ${code}`
errorMessage(c, pw, code) ==
    <<commandFile(c), " ">> \o join(safeArgs(commandArgs(c, pw)))
        \o <<" ", "failed", " ", "with", " ", "exit", " ", "code", " ", code>>

\* what the runtime prints for the 'error' event of a child process nobody
\* listens to: the spawn error with its properties, spawnargs among them
RECURSIVE inspectArgs(_)
inspectArgs(args) ==
    IF args = <<>> THEN <<>>
    ELSE <<" ", "'">> \o args[1] \o <<"'", ",">> \o inspectArgs(Tail(args))

uncaughtSpawnError(c, pw) ==
    <<"Error:", " ", "spawn", " ", commandFile(c), " ", "ENOENT", " ", "spawnargs:", " ", "[">>
        \o inspectArgs(commandArgs(c, pw)) \o <<" ", "]">>

\* end of the run of non-whitespace pieces that starts at position p
RECURSIVE runEnd(_, _)
runEnd(text, p) ==
    IF p < Len(text) /\ ~IsSpace(text[p + 1]) THEN runEnd(text, p + 1) ELSE p

\* error.message.replace(/--password=[^\s]+/g, '--password=***')
RECURSIVE replacePassword(_, _)
replacePassword(text, p) ==
    IF p > Len(text) THEN <<>>
    ELSE IF text[p] = "--password=" /\ p < Len(text) /\ ~IsSpace(text[p + 1])
         THEN Masked \o replacePassword(text, runEnd(text, p + 1) + 1)
         ELSE <<text[p]>> \o replacePassword(text, p + 1)

sanitizeError(message) == replacePassword(message, 1)

\* console.error(timestamp, ...sanitizedArgs)
errorLine(label, error) == <<"timestamp", " ", label, " ">> \o sanitizeError(error)

CommandInit ==
    /\ tz = 0
    /\ store = {} /\ older = 0
    /\ NamingIdle
    /\ RestoreIdle
    /\ SchedIdle
    /\ dbPassword \in Passwords
    /\ command \in Commands
    /\ cmdPc = "spawn"
    /\ cmdError = <<>>
    /\ stderrLines = <<>>

cUnchangedOthers == UNCHANGED <<tz, namingVars, storeVars, restoreVars, schedVars>>

\* runCommand: spawn, then the "close" listener, the only listener there is
RunCommand ==
    /\ cmdPc = "spawn"
    /\ \E outcome \in Outcomes :
         IF outcome = "0"
         THEN /\ cmdPc' = "resolved"
              /\ UNCHANGED <<cmdError, stderrLines>>
         ELSE IF outcome = "spawnError"
         THEN /\ cmdPc' = "crashed"
              /\ stderrLines' =
                    Append(stderrLines, uncaughtSpawnError(command, dbPassword))
              /\ UNCHANGED cmdError
         ELSE /\ cmdPc' = "rejected"
              /\ cmdError' = errorMessage(command, dbPassword, outcome)
              /\ UNCHANGED stderrLines
    /\ UNCHANGED <<dbPassword, command>>
    /\ cUnchangedOthers

\* scheduler: the catch of performFullBackup / performIncrementalBackup
ProcedureCatch ==
    /\ cmdPc = "rejected"
    /\ command \in SchedulerCommands
    /\ stderrLines' = Append(stderrLines, errorLine("Error during backup:", cmdError))
    /\ cmdPc' = "rethrown"
    /\ UNCHANGED <<dbPassword, command, cmdError>>
    /\ cUnchangedOthers

\* the catch of runBackup (scheduler) or of main (restore tool)
MainCatch ==
    /\ \/ cmdPc = "rethrown"
       \/ cmdPc = "rejected" /\ command \notin SchedulerCommands
    /\ stderrLines' =
          Append(stderrLines,
                 errorLine(IF command \in SchedulerCommands THEN "Backup failed:"
                                                            ELSE "Restore failed:",
                           cmdError))
    /\ cmdPc' = "exited"
    /\ UNCHANGED <<dbPassword, command, cmdError>>
    /\ cUnchangedOthers

CommandNext == RunCommand \/ ProcedureCatch \/ MainCatch

SpecCommand == CommandInit /\ [][CommandNext]_vars

\* the texts the program has produced: the error message and the lines written
EmittedTexts == {cmdError} \cup {stderrLines[i] : i \in DOMAIN stderrLines}

\* every password-bearing argument in the text is the mask and nothing more
MaskedOnly(text) ==
    \A p \in DOMAIN text :
       text[p] = "--password=" =>
          /\ p + 3 <= Len(text)
          /\ SubSeq(text, p + 1, p + 3) = <<"*", "*", "*">>
          /\ (p + 3 = Len(text) \/ IsSpace(text[p + 4]))

\* C21: the database password never appears in an error message or a line
\* of the error stream: whatever the password and however the command
\* failed, every text produced carries the password-bearing argument only
\* as --password=***.
C21_PasswordMasked == \A text \in EmittedTexts : MaskedOnly(text)

----------------------------------------------------------------------------
\* C7: incremental key round trip. Decoding the key encoded for instant t
\* gives t truncated to the second (as a UTC instant), and the day the
\* resolver derives from the decoded date is the day written in the key,
\* whatever the time zone of the restore machine.
C7_IncRoundTrip ==
    (nPc = "done" /\ nKind = "inc") =>
        /\ nDate = (nT \div MsPerSec) * MsPerSec
        /\ nDay = nKey.day

\* C8: full key round trip. Decoding the key encoded for (Full, t) gives
\* midnight UTC of t's UTC day, and encoding the decoded date again gives
\* the same key.
C8_FullRoundTrip ==
    (nPc = "done" /\ nKind = "full") =>
        /\ nDate = (nT \div DayMs) * DayMs
        /\ nDate <= nT /\ nT < nDate + DayMs
        /\ FullKey(formatDate(nDate)) = nKey

C8_Witness ==
    /\ nPc = "done" /\ nKind = "full"
    /\ tz # 0
    /\ nT % DayMs # 0

====
